---- MODULE Spec2Model ----
(***************************************************************************)
(* CryptoDetector: the indicator catalogs, the content analyzers and the   *)
(* O365 scan (scanO365Tenant) of crypto-detector-web/src/lib/o365.         *)
(*                                                                         *)
(* A content string is a sequence of words separated by single blanks;     *)
(* the word NL is a line break.  A regular expression of a catalog is a    *)
(* sequence of alternatives; an alternative is a literal, two literals     *)
(* joined by one blank, or literals joined by ".*" (which does not cross a *)
(* line break).  Patterns carry the i flag: words and literals are written *)
(* in lower case.                                                          *)
(***************************************************************************)
EXTENDS Integers, Sequences, FiniteSets, TLC

VARIABLES
  analyzer,      \* which analyzeCryptoMiningIndicators is called
  content,       \* the content string passed to the analyzer
  analysis,      \* the value the analyzer returned, NoAnalysis before the call
  variant,       \* which scanO365Tenant the build holds
  pc,            \* where the scan is: idle, awaitGet, awaitTimer, done, threw
  authResult,    \* the authResult argument of the scan
  options,       \* the options argument of the scan
  clientCreated, \* axios.create has been called
  requests,      \* the requests issued through graphClient.get, in order
  mockBuilt,     \* the mockDetections table once it has been built
  analyzed,      \* the items handed to the analyzer, in order
  result,        \* the O365ScanResult the scan returned, NoResult before
  logged,        \* the messages passed to console.error, in order
  thrown,        \* the message of the error the scan's promise rejected with
  entry,         \* the exported function the caller invoked
  request,       \* the config of runO365Scan or the parsed body of the POST
  epc,           \* where the entry is: idle, awaitAuth, awaitScan, returned, threw
  authLog,       \* the calls of authenticateO365: options and returned value
  runResult,     \* the O365ScanResult runO365Scan returned, NoResult before
  response,      \* the response of the POST handler, NoResponse before
  summaryArg,    \* the summary passed to generateMockDetections
  generated,     \* the detections generateMockDetections returned
  matchedRules,  \* the rules of the catalog taken as matching, for the scoring alone
  now,           \* the millisecond Date.now() reads
  calls,         \* two invocations of the Graph scan, each with its own locals
  form,          \* the form state of the scan page: tenantId, clientId, clientSecret
  ppc,           \* where handleSubmit is: idle, awaitFetch, awaitJson
  isLoading,     \* the isLoading state of the scan page
  scanResult,    \* the scanResult state of the scan page
  error,         \* the error state of the scan page
  submissions,   \* how many times the form has been submitted
  fetched        \* the request sent and the response fetch resolved with

avars == <<analyzer, content, analysis>>

svars == <<variant, pc, authResult, options, clientCreated, requests, mockBuilt,
           analyzed, result, logged, thrown>>

\* the entry points around the scan
evars == <<entry, request, epc, authLog, runResult, response>>

\* the results route
rvars == <<summaryArg, generated>>

\* the scoring alone
wvars == <<matchedRules>>

\* two invocations side by side
tvars == <<now, calls>>

\* the scan page
pvars == <<form, ppc, isLoading, scanResult, error, submissions, fetched>>

\* what the scan, its entry points, the analyzer call and the results route
\* leave alone
ovars == <<wvars, tvars, pvars>>

vars == <<analyzer, content, analysis, variant, pc, authResult, options,
          clientCreated, requests, mockBuilt, analyzed, result, logged, thrown,
          entry, request, epc, authLog, runResult, response, summaryArg, generated,
          matchedRules, now, calls, form, ppc, isLoading, scanResult, error,
          submissions, fetched>>

----------------------------------------------------------------------------
(* Bounds *)

MaxFrags == 3

MaxMessages == 2

----------------------------------------------------------------------------
(* Helpers *)

SetMin(S) == CHOOSE x \in S : \A y \in S : x <= y

SetMax(S) == CHOOSE x \in S : \A y \in S : x >= y

Min(a, b) == IF a <= b THEN a ELSE b

RECURSIVE SumWeights(_, _)
SumWeights(cat, S) ==
  IF S = {} THEN 0
  ELSE LET k == CHOOSE x \in S : TRUE
       IN cat[k].weight + SumWeights(cat, S \ {k})

RECURSIVE Flatten(_)
Flatten(ss) == IF ss = <<>> THEN <<>> ELSE Head(ss) \o Flatten(Tail(ss))

RECURSIVE SeqsUpTo(_, _)
SeqsUpTo(S, n) ==
  IF n = 0 THEN {<<>>}
  ELSE LET shorter == SeqsUpTo(S, n - 1)
       IN shorter \cup {Append(s, x) : s \in {t \in shorter : Len(t) = n - 1}, x \in S}

----------------------------------------------------------------------------
(* Words of a content string and the pattern literals they contain *)

NL == "\n"

MoneroAddress ==
  "44affq5ksigboz4nmdwytn18obc8aems33dblws3h7otxft3xjrpdtqgv7sqssabybb98unbr2vbbet7f2wfn3rvgqbep3a"

EthereumAddress == "0x52908400098527886e0f7030069857d2e4169ee7"

UrlStratum == "\"url\":\"stratum+tcp://pool.minexmr.com:4444\""

\* the literals of the catalogs that occur somewhere in word w
Has(w) ==
  CASE w = "xmrig" -> {"xmrig", "xmr"}
    [] w = "monero" -> {"monero"}
    [] w = "cryptonight" -> {"cryptonight"}
    [] w = "stratum+tcp://pool.example.com:3333" -> {"stratum+tcp"}
    [] w = "nanopool" -> {"nanopool"}
    [] w = "coinhive" -> {"coinhive"}
    [] w = MoneroAddress -> {"4[0-9ab][1-9a-hj-np-za-km-z]{93}"}
    [] w = EthereumAddress -> {"0x[a-f0-9]{40}"}
    [] w = "--donate-level=1" -> {"--donate-level"}
    [] w = "config.json" -> {"config.json"}
    [] w = UrlStratum -> {"\"url\":\"stratum", "stratum+tcp", "pool.minexmr.com", "minexmr", "xmr"}
    [] w = "schtasks" -> {"schtasks"}
    [] w = "/create" -> {"create"}
    [] w = "powershell" -> {"powershell"}
    [] w = "hidden" -> {"hidden"}
    [] w = "startup" -> {"startup"}
    [] w = "hashrate" -> {"hashrate"}
    [] OTHER -> {}

\* the literals word w ends with / starts with (pieces of two-word literals)
EndsWith(w) ==
  CASE w = "powershell" -> {"powershell"}
    [] w = "hidden" -> {"hidden"}
    [] w = "startup" -> {"startup"}
    [] OTHER -> {}

StartsWith(w) ==
  CASE w = "-enc" -> {"-enc", "-e"}
    [] w = "-w" -> {"-w"}
    [] w = "folder" -> {"folder"}
    [] w = "wallet" -> {"wallet"}
    [] OTHER -> {}

----------------------------------------------------------------------------
(* Regular expressions: RegExp.prototype.test and String.prototype.match   *)
(* without the g flag                                                      *)

Lit(l) == [join |-> "gap", parts |-> <<l>>]

Gap(ps) == [join |-> "gap", parts |-> ps]

Phrase(a, b) == [join |-> "blank", parts |-> <<a, b>>]

\* the last word of the line that word i is on
LineEnd(c, i) ==
  LET nls == {j \in (i + 1)..Len(c) : c[j] = NL}
  IN IF nls = {} THEN Len(c) ELSE SetMin(nls) - 1

\* where part `last` sits in the earliest chain of parts k..last within
\* from..e; from - 1 when there is no part left, 0 when there is no chain
RECURSIVE Earliest(_, _, _, _, _, _)
Earliest(c, ps, k, last, from, e) ==
  IF k > last THEN from - 1
  ELSE LET hits == {j \in from..e : ps[k] \in Has(c[j])}
       IN IF hits = {} THEN 0
          ELSE Earliest(c, ps, k + 1, last, SetMin(hits) + 1, e)

\* the word in which a chain of ".*" parts ends whose next to last part
\* sits in word m, on the line that ends with word e: ".*" is greedy, so the
\* match runs to the last occurrence of the last part on the line
GapEnd(c, ps, m, e) ==
  IF m = 0 THEN 0
  ELSE IF {j \in (m + 1)..e : ps[Len(ps)] \in Has(c[j])} = {} THEN 0
  ELSE SetMax({j \in (m + 1)..e : ps[Len(ps)] \in Has(c[j])})

\* the word in which a match of the alternative starting in word i ends,
\* 0 when the alternative does not match at word i
AltEnd(c, alt, i) ==
  IF alt.join = "blank"
  THEN IF /\ alt.parts[1] \in EndsWith(c[i])
          /\ i + 1 <= Len(c)
          /\ alt.parts[2] \in StartsWith(c[i + 1])
       THEN i + 1 ELSE 0
  ELSE IF alt.parts[1] \notin Has(c[i]) THEN 0
  ELSE IF Len(alt.parts) = 1 THEN i
  ELSE GapEnd(c, alt.parts,
              Earliest(c, alt.parts, 2, Len(alt.parts) - 1, i + 1, LineEnd(c, i)),
              LineEnd(c, i))

\* the matched substring, as the pieces it is made of
AltText(c, alt, i, e) ==
  IF alt.join = "blank" \/ Len(alt.parts) = 1 THEN alt.parts
  ELSE <<alt.parts[1]>> \o SubSeq(c, i + 1, e - 1) \o <<alt.parts[Len(alt.parts)]>>

\* the matches of a pattern in a content: <<i, a, e>> when alternative a
\* matches from word i to word e
Hits(c, pattern) ==
  {h \in {<<i, a, AltEnd(c, pattern[a], i)>> : i \in 1..Len(c), a \in 1..Len(pattern)} :
     h[3] # 0}

\* the leftmost match, and at one place the first alternative that matches
Leftmost(H) == CHOOSE h \in H : \A g \in H : h[1] < g[1] \/ (h[1] = g[1] /\ h[2] <= g[2])

MatchResult(c, pattern, H) ==
  IF H = {} THEN [null |-> TRUE, text |-> <<>>]
  ELSE [null |-> FALSE,
        text |-> AltText(c, pattern[Leftmost(H)[2]], Leftmost(H)[1], Leftmost(H)[3])]

\* content.match(pattern): the first match, null when nothing matches
StringMatch(c, pattern) == MatchResult(c, pattern, Hits(c, pattern))

\* mutant: the test is written without its call, `if (pattern.test)`
RegExpTestTruthy(pattern, c) == TRUE

\* pattern.test(content)
RegExpTest(pattern, c) == Hits(c, pattern) # {}

\* how many places of the content the pattern matches at
Occurrences(c, pattern) == Cardinality({h[1] : h \in Hits(c, pattern)})

----------------------------------------------------------------------------
(* The catalogs *)

Rule(p, cat, w) == [pattern |-> p, category |-> cat, weight |-> w]

\* the indicators of the analyzer that scanO365Tenant calls
indicators == <<
  Rule(<<Lit("xmrig"), Lit("cpuminer"), Lit("claymore"), Lit("ethminer"), Lit("phoenixminer")>>,
       "MinerSoftware", 8),
  Rule(<<Lit("monero"), Phrase("xmr", "miner"), Lit("cryptonight")>>, "MinerSoftware", 7),
  Rule(<<Lit("stratum+tcp"), Lit("pool.supportxmr.com"), Lit("pool.minexmr.com")>>,
       "MiningPool", 9),
  Rule(<<Lit("nanopool"), Lit("ethermine"), Lit("f2pool"), Lit("nicehash")>>, "MiningPool", 8),
  Rule(<<Lit("coinhive"), Lit("cryptoloot"), Lit("jsecoin"), Lit("webminepool"),
         Lit("cryptonoter")>>, "BrowserMiner", 7),
  Rule(<<Lit("4[0-9ab][1-9a-hj-np-za-km-z]{93}")>>, "MoneroWallet", 6),
  Rule(<<Lit("0x[a-f0-9]{40}")>>, "EthereumWallet", 5),
  Rule(<<Lit("--donate-level"), Lit("--max-cpu-usage"), Lit("--cpu-priority")>>,
       "MinerConfig", 8),
  Rule(<<Gap(<<"config.json", "\"url\":\"stratum">>)>>, "MinerConfig", 9),
  Rule(<<Gap(<<"schtasks", "create", "powershell">>)>>, "SuspiciousBehavior", 7),
  Rule(<<Gap(<<"hidden", "startup">>)>>, "SuspiciousBehavior", 6) >>

\* the patterns of the exported analyzer
CRYPTO_PATTERNS == <<
  Rule(<<Lit("coinminer"), Lit("cryptominer"), Lit("monerominer")>>, "Mining Software", 9),
  Rule(<<Lit("coinhive"), Lit("cryptoloot"), Lit("deepminer"), Lit("webminepool")>>,
       "Browser Mining", 10),
  Rule(<<Lit("stratum+tcp"), Lit("pool.supportxmr"), Lit("nanopool"), Lit("minexmr")>>,
       "Mining Pool", 8),
  Rule(<<Lit("cryptonight"), Lit("ethash"), Lit("equihash"), Lit("randomx")>>,
       "Mining Algorithm", 7),
  Rule(<<Lit("monero"), Lit("xmr"), Phrase("eth", "wallet"), Phrase("btc", "wallet")>>,
       "Cryptocurrency", 6),
  Rule(<<Lit("winring0"), Phrase("gpu", "mining")>>, "Mining Hardware Access", 8),
  Rule(<<Lit("hashrate"), Lit("throttle"), Phrase("stealth", "mining")>>, "Mining Behavior", 7),
  Rule(<<Phrase("base64", "-d"), Lit("eval(atob"), Lit("fromcharcode")>>, "Obfuscation", 8),
  Rule(<<Phrase("powershell", "-enc"), Phrase("powershell", "-e"), Phrase("hidden", "-w")>>,
       "Suspicious Execution", 9),
  Rule(<<Lit("schtasks"), Lit("persistence"), Phrase("startup", "folder")>>,
       "Persistence Mechanism", 7) >>

----------------------------------------------------------------------------
(* The analyzers *)

Match(text, rule) == [match |-> text, category |-> rule.category, weight |-> rule.weight]

\* mutant: unshift in place of push
PushIndicatorUnshift(acc, rule, m) ==
  [matches |-> <<Match(IF m.null THEN <<>> ELSE m.text, rule)>> \o acc.matches,
   score |-> acc.score + rule.weight]

\* matches.push({match: content.match(pattern)?.[0] || '', ...}); score += weight
PushIndicator(acc, rule, m) ==
  [matches |-> Append(acc.matches, Match(IF m.null THEN <<>> ELSE m.text, rule)),
   score |-> acc.score + rule.weight]

\* mutant: `score = weight` in place of `score += weight`
IndicatorStepOverwrite(acc, rule, c) ==
  IF RegExpTest(rule.pattern, c)
  THEN [matches |-> PushIndicator(acc, rule, StringMatch(c, rule.pattern)).matches,
        score |-> rule.weight]
  ELSE acc

\* one round of the loop over the indicators: test, match, push, score +=
IndicatorStep(acc, rule, c) ==
  IF RegExpTest(rule.pattern, c)
  THEN PushIndicator(acc, rule, StringMatch(c, rule.pattern))
  ELSE acc

RECURSIVE IndicatorLoop(_, _, _)
IndicatorLoop(k, acc, c) ==
  IF k > Len(indicators) THEN acc
  ELSE IndicatorLoop(k + 1, IndicatorStep(acc, indicators[k], c), c)

\* score = Math.min(100, score); return { score, matches }
CapScore(acc) == [score |-> Min(100, acc.score), matches |-> acc.matches]

\* the analyzer next to the Graph scan
analyzeCryptoMiningIndicators(c) ==
  CapScore(IndicatorLoop(1, [matches |-> <<>>, score |-> 0], c))

\* if (match) matches.push({match: match[0], ...})
PushPattern(matches, rule, m) ==
  IF ~m.null THEN Append(matches, Match(m.text, rule)) ELSE matches

RECURSIVE AppendTimes(_, _, _)
AppendTimes(matches, m, n) ==
  IF n = 0 THEN matches ELSE AppendTimes(Append(matches, m), m, n - 1)

\* mutant: one Match pushed for every occurrence, as with the g flag
PatternStepEveryOccurrence(matches, rule, c) ==
  AppendTimes(matches, Match(<<>>, rule), Occurrences(c, rule.pattern))

\* one round of the loop over CRYPTO_PATTERNS: match, push
PatternStep(matches, rule, c) == PushPattern(matches, rule, StringMatch(c, rule.pattern))

RECURSIVE PatternLoop(_, _, _)
PatternLoop(k, matches, c) ==
  IF k > Len(CRYPTO_PATTERNS) THEN matches
  ELSE PatternLoop(k + 1, PatternStep(matches, CRYPTO_PATTERNS[k], c), c)

\* matches.reduce((sum, m) => sum + m.weight, 0)
RECURSIVE ReduceWeight(_, _, _)
ReduceWeight(matches, k, sum) ==
  IF k > Len(matches) THEN sum ELSE ReduceWeight(matches, k + 1, sum + matches[k].weight)

\* mutant: Math.floor in place of Math.round
NormalizeWeightFloor(totalWeight) == (100 * totalWeight) \div 30

\* Math.round((totalWeight / 30) * 100): 10 * totalWeight / 3 is never
\* half way between two integers, so rounding is floor(x + 1/2)
NormalizeWeight(totalWeight) == (20 * totalWeight + 3) \div 6

\* mutant: the cap at 100 is left out
ScoreOfMatchesUncapped(matches) ==
  [score |-> NormalizeWeight(ReduceWeight(matches, 1, 0)), matches |-> matches]

\* the score of the exported analyzer and its return value
ScoreOfMatches(matches) ==
  [score |-> Min(NormalizeWeight(ReduceWeight(matches, 1, 0)), 100), matches |-> matches]

\* the exported analyzer
analyzeCryptoMiningIndicatorsExported(c) == ScoreOfMatches(PatternLoop(1, <<>>, c))

\* the analyzer defined before the second Graph scan
analyzeCryptoMiningIndicatorsStub(c) == [score |-> 0, matches |-> <<>>]

Analyzers == {"indicators", "exported", "stub"}

Analyze(which, c) ==
  CASE which = "indicators" -> analyzeCryptoMiningIndicators(c)
    [] which = "exported" -> analyzeCryptoMiningIndicatorsExported(c)
    [] which = "stub" -> analyzeCryptoMiningIndicatorsStub(c)

\* the catalog an analyzer consults
CatalogOf(which) ==
  CASE which = "indicators" -> indicators
    [] which = "exported" -> CRYPTO_PATTERNS
    [] which = "stub" -> <<>>

----------------------------------------------------------------------------
(* Contents: sequences of at most MaxFrags fragments *)

MediumKit ==
  <<"xmrig", "monero", "stratum+tcp://pool.example.com:3333", "nanopool", "coinhive",
    "--donate-level=1">>

HighKit ==
  MediumKit \o <<MoneroAddress, EthereumAddress, "config.json", UrlStratum,
                 "schtasks", "/create", "powershell", "hidden", "startup">>

\* the scenario of the documentation: a download of xmrig pointed at a pool
Scenario == <<"curl", "xmrig", "-o", "stratum+tcp://pool.example.com:3333", "-u", "wallet">>

Fragments ==
  {<<w>> : w \in {"hello", "xmrig", "monero", "schtasks", "/create", "powershell",
                  "-enc", NL}}
  \cup {HighKit, Scenario}

Contents == {Flatten(fs) : fs \in SeqsUpTo(Fragments, MaxFrags)}

NoAnalysis == [score |-> -1, matches |-> <<>>]

----------------------------------------------------------------------------
(* Values of the scan *)

Undefined == "<undefined>"

\* !x of a string or undefined
Falsy(x) == x \in {Undefined, ""}

AuthResults == [authenticated : BOOLEAN, token : {Undefined, "", "mock-token-1"}]

Flags == {"includeEmail", "includeSharePoint", "includeOneDrive", "includeTeams"}

\* an options object holds any of the flags; a flag it lacks reads undefined
OptionsObjects == UNION {[fs -> BOOLEAN] : fs \in SUBSET Flags}

\* null, and undefined, where an object is expected
NullValue == [null |-> TRUE]

UndefinedValue == [undefined |-> TRUE]

\* options objects that carry maxItems
OptionsWithMaxItems ==
  {("maxItems" :> 1), [includeEmail |-> FALSE] @@ ("maxItems" :> 1)}

\* the values the caller of the scan passes for authResult and options
AuthArguments == AuthResults \cup {NullValue}

OptionsArguments == OptionsObjects \cup OptionsWithMaxItems \cup {NullValue}

\* the message of the TypeError a property read of null or undefined throws
TypeErrorMessage == "Cannot read properties of null"

\* options.flag === false
IsFalse(opts, flag) == flag \in DOMAIN opts /\ opts[flag] = FALSE

\* the source names a flag stands for, by the substring the names share
NeedleOf(flag) ==
  CASE flag = "includeEmail" -> "Exchange"
    [] flag = "includeSharePoint" -> "SharePoint"
    [] flag = "includeOneDrive" -> "OneDrive"
    [] flag = "includeTeams" -> "Teams"

\* String.prototype.includes on the source names of the scan
Includes(s, needle) ==
  <<s, needle>> \in {<<"Exchange Online", "Exchange">>, <<"SharePoint Online", "SharePoint">>,
                     <<"OneDrive", "OneDrive">>, <<"Teams", "Teams">>}

MessagesUrl == "/me/messages?$top=50"

\* the source a request reads
SourceOfRequest(url) == IF url = MessagesUrl THEN "Exchange Online" ELSE "unknown"

NoResult == [scanId |-> Undefined, status |-> "pending",
             summary |-> [total |-> 0, high |-> 0, medium |-> 0, low |-> 0],
             detections |-> <<>>, error |-> Undefined]

\* the contents a message of a response may carry
ScanContents == {<<>>, <<"hello">>, <<"xmrig">>, <<"xmrig", "xmrig", "monero">>,
                 MediumKit, HighKit}

\* a message of a response: one with a body and its content ('' when the
\* content is missing), or one without a body
Messages == {[body |-> TRUE, content |-> c] : c \in ScanContents}
            \cup {[body |-> FALSE, content |-> <<>>]}

Responses == SeqsUpTo(Messages, MaxMessages)

\* the number of characters of a word
WordLen(w) ==
  CASE w = "hello" -> 5
    [] w = "xmrig" -> 5
    [] w = "monero" -> 6
    [] w = "stratum+tcp://pool.example.com:3333" -> 35
    [] w = "nanopool" -> 8
    [] w = "coinhive" -> 8
    [] w = "--donate-level=1" -> 16
    [] w = MoneroAddress -> 95
    [] w = EthereumAddress -> 42
    [] w = "config.json" -> 11
    [] w = UrlStratum -> 43
    [] w = "schtasks" -> 8
    [] w = "/create" -> 7
    [] w = "powershell" -> 10
    [] w = "hidden" -> 6
    [] w = "startup" -> 7
    [] w = "curl" -> 4
    [] w = "wallet" -> 6
    [] w \in {"-o", "-u"} -> 2
    [] OTHER -> 1

\* the characters of the first k words and the blanks between them
RECURSIVE CharsOf(_, _)
CharsOf(c, k) == IF k = 0 THEN 0 ELSE CharsOf(c, k - 1) + WordLen(c[k]) + (IF k > 1 THEN 1 ELSE 0)

PreviewChars == 200

\* content.substring(0, 200) + '...': the words that fit whole in the first
\* 200 characters (a word cut in two is left out), then the dots
Preview(c) ==
  LET fit == {k \in 0..Len(c) : CharsOf(c, k) <= PreviewChars}
  IN Append(SubSeq(c, 1, SetMax(fit)), "...")

----------------------------------------------------------------------------
(* scanO365Tenant *)

\* mutant: the token is not looked at
AuthFailedNoTokenCheck(auth) == ~auth.authenticated

\* !authResult.authenticated || !authResult.token
AuthFailed(auth) == ~auth.authenticated \/ Falsy(auth.token)

\* mutant: the flag is not looked at
EmailEnabledIgnoresFlag(opts) == TRUE

\* options.includeEmail !== false
EmailEnabled(opts) == ~IsFalse(opts, "includeEmail")

\* mutant: HIGH from 60 (the thresholds of another scale)
SeverityHighAbove60(score) ==
  IF score > 60 THEN "HIGH" ELSE IF score > 40 THEN "MEDIUM" ELSE "LOW"

Severity(score) == IF score > 70 THEN "HIGH" ELSE IF score > 40 THEN "MEDIUM" ELSE "LOW"

\* detections.filter(d => d.severity === sev).length
RECURSIVE CountSeverity(_, _)
CountSeverity(dets, sev) ==
  IF dets = <<>> THEN 0
  ELSE (IF Head(dets).severity = sev THEN 1 ELSE 0) + CountSeverity(Tail(dets), sev)

\* mutant: the low count compares with 'Low'
SummaryLowMiscounted(dets) ==
  [total |-> Len(dets), high |-> CountSeverity(dets, "HIGH"),
   medium |-> CountSeverity(dets, "MEDIUM"), low |-> CountSeverity(dets, "Low")]

Summary(dets) ==
  [total |-> Len(dets), high |-> CountSeverity(dets, "HIGH"),
   medium |-> CountSeverity(dets, "MEDIUM"), low |-> CountSeverity(dets, "LOW")]

NoSummary == [total |-> 0, high |-> 0, medium |-> 0, low |-> 0]

\* mutant: the failed result carries no error
FailedResultWithoutError(id, err) ==
  [scanId |-> id, status |-> "failed", summary |-> NoSummary, detections |-> <<>>,
   error |-> Undefined]

FailedResult(id, err) ==
  [scanId |-> id, status |-> "failed", summary |-> NoSummary, detections |-> <<>>,
   error |-> err]

\* mutant: the result is returned with the status of a running scan
CompletedResultInProgress(dets) ==
  [scanId |-> "o365-scan-", status |-> "in-progress", summary |-> Summary(dets),
   detections |-> dets, error |-> Undefined]

CompletedResult(dets) ==
  [scanId |-> "o365-scan-", status |-> "completed", summary |-> Summary(dets),
   detections |-> dets, error |-> Undefined]

\* the analyzer a Graph scan calls
AnalyzerOf(v) == IF v = "graph" THEN "indicators" ELSE "stub"

\* mutant: every detection gets the id 1
DetectionIdConstant(dets) == 1

\* id: detections.length + 1
DetectionId(dets) == Len(dets) + 1

\* the detection pushed for a message whose analysis has matches
EmailDetection(dets, c, a) ==
  [id |-> DetectionId(dets), severity |-> Severity(a.score), source |-> "Exchange Online",
   itemType |-> "Email", score |-> a.score, content |-> Preview(c), matches |-> a.matches]

\* mutant: the detection is pushed whatever the analysis found
ScanItemPushesAll(acc, c, a) ==
  [detections |-> Append(acc.detections, EmailDetection(acc.detections, c, a)),
   analyzed |-> Append(acc.analyzed,
                       [source |-> "Exchange Online", content |-> c, score |-> a.score])]

\* the body of the loop for one message with content c and analysis a: the
\* detection is pushed when the analysis has matches
ScanItem(acc, c, a) ==
  [detections |-> IF Len(a.matches) > 0
                  THEN Append(acc.detections, EmailDetection(acc.detections, c, a))
                  ELSE acc.detections,
   analyzed |-> Append(acc.analyzed,
                       [source |-> "Exchange Online", content |-> c, score |-> a.score])]

\* the loop over the messages of a response; a message without a body
\* throws out of the loop, into the catch of the source, and the detections
\* pushed so far stay
RECURSIVE ScanMessages(_, _, _, _)
ScanMessages(which, msgs, k, acc) ==
  IF k > Len(msgs) THEN acc
  ELSE IF ~msgs[k].body THEN acc
  ELSE ScanMessages(which, msgs, k + 1,
                    ScanItem(acc, msgs[k].content, Analyze(which, msgs[k].content)))

\* the Graph scan up to its first await: the check of the authentication
\* (a null authResult throws there, outside the try), the client, and the
\* request for the messages when Email is enabled (null options throw
\* there, into the outer catch)
GraphCall(auth, opts) ==
  /\ authResult' = auth
  /\ options' = opts
  /\ IF auth = NullValue
     THEN /\ thrown' = TypeErrorMessage
          /\ pc' = "threw"
          /\ UNCHANGED <<result, clientCreated, requests, logged>>
     ELSE IF AuthFailed(auth)
     THEN /\ result' = FailedResult("failed-", "Authentication required")
          /\ pc' = "done"
          /\ UNCHANGED <<clientCreated, requests, logged, thrown>>
     ELSE /\ clientCreated' = TRUE
          /\ IF opts = NullValue
             THEN /\ logged' = Append(logged, "Error during O365 scan:")
                  /\ result' = FailedResult("error-", TypeErrorMessage)
                  /\ pc' = "done"
                  /\ UNCHANGED <<requests, thrown>>
             ELSE IF EmailEnabled(opts)
             THEN /\ requests' = Append(requests, MessagesUrl)
                  /\ pc' = "awaitGet"
                  /\ UNCHANGED <<result, logged, thrown>>
             ELSE /\ result' = CompletedResult(<<>>)
                  /\ pc' = "done"
                  /\ UNCHANGED <<requests, logged, thrown>>
  /\ UNCHANGED <<variant, mockBuilt, analyzed>>

\* a message of the response has no body: reading its content throws
Raises(msgs) == \E k \in 1..Len(msgs) : ~msgs[k].body

\* the request resolves: the messages are analyzed (a message that throws
\* ends the loop in the catch of the source, which logs it), the summary is
\* calculated and the scan returns
GraphResolves(msgs) ==
  /\ pc = "awaitGet"
  /\ LET r == ScanMessages(AnalyzerOf(variant), msgs, 1,
                            [detections |-> <<>>, analyzed |-> <<>>])
     IN /\ analyzed' = r.analyzed
        /\ result' = CompletedResult(r.detections)
  /\ logged' = IF Raises(msgs) THEN Append(logged, "Error scanning Exchange Online:")
                ELSE logged
  /\ pc' = "done"
  /\ UNCHANGED <<variant, authResult, options, clientCreated, requests, mockBuilt, thrown>>
  /\ UNCHANGED <<avars, evars, rvars, ovars>>

\* mutant: a rejected request fails the scan
GraphRejectsFailsScan ==
  /\ pc = "awaitGet"
  /\ logged' = Append(logged, "Error scanning Exchange Online:")
  /\ result' = FailedResult("error-", "Network Error")
  /\ pc' = "done"
  /\ UNCHANGED <<variant, authResult, options, clientCreated, requests, mockBuilt,
                 analyzed, thrown>>
  /\ UNCHANGED <<avars, evars, rvars, ovars>>

\* the request rejects, or its response carries no list of messages: the
\* catch of the source logs it and the scan returns what it has
GraphRejects ==
  /\ pc = "awaitGet"
  /\ logged' = Append(logged, "Error scanning Exchange Online:")
  /\ result' = CompletedResult(<<>>)
  /\ pc' = "done"
  /\ UNCHANGED <<variant, authResult, options, clientCreated, requests, mockBuilt,
                 analyzed, thrown>>
  /\ UNCHANGED <<avars, evars, rvars, ovars>>

\* the table of the mock scan
mockDetections == <<
  [id |-> 1, severity |-> "HIGH", source |-> "Exchange Online",
   itemType |-> "Email Attachment", score |-> 92,
   content |-> <<"Suspicious PowerShell script with obfuscated mining commands">>,
   matches |-> <<[match |-> <<"Invoke-Expression">>, category |-> "PowerShell Execution",
                  weight |-> 7],
                 [match |-> <<"base64 encoded content">>, category |-> "Obfuscation",
                  weight |-> 8]>>],
  [id |-> 2, severity |-> "HIGH", source |-> "SharePoint Online",
   itemType |-> "Shared Document", score |-> 88,
   content |-> <<"JavaScript file with hidden cryptomining code">>,
   matches |-> <<[match |-> <<"CoinHive">>, category |-> "Mining Service", weight |-> 10],
                 [match |-> <<"WebAssembly.instantiate">>, category |-> "Browser Mining",
                  weight |-> 6]>>],
  [id |-> 3, severity |-> "MEDIUM", source |-> "OneDrive", itemType |-> "Script File",
   score |-> 65, content |-> <<"Batch file with suspicious network connections">>,
   matches |-> <<[match |-> <<"pool.minexmr.com">>, category |-> "Mining Pool",
                  weight |-> 8]>>],
  [id |-> 4, severity |-> "MEDIUM", source |-> "Teams", itemType |-> "Shared Link",
   score |-> 58, content |-> <<"Link to suspicious mining pool registration">>,
   matches |-> <<[match |-> <<"cryptopool.eu">>, category |-> "Mining Pool",
                  weight |-> 7]>>],
  [id |-> 5, severity |-> "LOW", source |-> "Exchange Online", itemType |-> "Email Body",
   score |-> 35, content |-> <<"Email discussing cryptocurrency mining">>,
   matches |-> <<[match |-> <<"mining rig">>, category |-> "Mining Hardware",
                  weight |-> 4]>>] >>

\* filteredDetections.filter(d => !d.source.includes(needle))
RECURSIVE FilterOut(_, _)
FilterOut(dets, needle) ==
  IF dets = <<>> THEN <<>>
  ELSE IF Includes(Head(dets).source, needle) THEN FilterOut(Tail(dets), needle)
  ELSE <<Head(dets)>> \o FilterOut(Tail(dets), needle)

\* one of the four filters: applied when the flag is false
FilterByFlag(dets, opts, flag) ==
  IF IsFalse(opts, flag) THEN FilterOut(dets, NeedleOf(flag)) ELSE dets

\* mutant: the filter for Teams is missing
FilterByOptionsNoTeams(dets, opts) ==
  FilterByFlag(FilterByFlag(FilterByFlag(dets, opts, "includeEmail"),
                            opts, "includeSharePoint"),
               opts, "includeOneDrive")

FilterByOptions(dets, opts) ==
  FilterByFlag(FilterByFlag(FilterByFlag(FilterByFlag(dets, opts, "includeEmail"),
                                         opts, "includeSharePoint"),
                            opts, "includeOneDrive"),
               opts, "includeTeams")

\* the mock scan up to its await: the check of the authentication (a null
\* authResult throws there), then the two-second timer
MockCall(auth, opts) ==
  /\ authResult' = auth
  /\ options' = opts
  /\ IF auth = NullValue
     THEN /\ thrown' = TypeErrorMessage
          /\ pc' = "threw"
          /\ UNCHANGED result
     ELSE IF AuthFailed(auth)
     THEN /\ result' = FailedResult("failed-", "Authentication required")
          /\ pc' = "done"
          /\ UNCHANGED thrown
     ELSE /\ pc' = "awaitTimer"
          /\ UNCHANGED <<result, thrown>>
  /\ UNCHANGED <<variant, clientCreated, requests, mockBuilt, analyzed, logged>>

\* the timer fires: the table is built, filtered by the options (null
\* options throw there, and nothing catches it) and summarised, and the scan
\* returns
MockTimerFires ==
  /\ pc = "awaitTimer"
  /\ mockBuilt' = mockDetections
  /\ IF options = NullValue
     THEN /\ thrown' = TypeErrorMessage
          /\ pc' = "threw"
          /\ UNCHANGED result
     ELSE /\ result' = CompletedResult(FilterByOptions(mockDetections, options))
          /\ pc' = "done"
          /\ UNCHANGED thrown
  /\ UNCHANGED <<variant, authResult, options, clientCreated, requests, analyzed, logged>>
  /\ UNCHANGED <<avars, evars, rvars, ovars>>

\* the scanO365Tenant the build holds, called with these arguments
ScanCall(auth, opts) ==
  IF variant = "mock" THEN MockCall(auth, opts) ELSE GraphCall(auth, opts)

\* the caller invokes the Graph scan itself
scanO365Tenant(auth, opts) ==
  /\ entry = "none"
  /\ variant \in {"graph", "graphStub"}
  /\ entry' = "scanO365Tenant"
  /\ GraphCall(auth, opts)
  /\ UNCHANGED <<request, epc, authLog, runResult, response>>
  /\ UNCHANGED <<avars, rvars, ovars>>

\* the caller invokes the mock scan itself
scanO365TenantMock(auth, opts) ==
  /\ entry = "none"
  /\ variant = "mock"
  /\ entry' = "scanO365Tenant"
  /\ MockCall(auth, opts)
  /\ UNCHANGED <<request, epc, authLog, runResult, response>>
  /\ UNCHANGED <<avars, rvars, ovars>>

----------------------------------------------------------------------------
(* authenticateO365, runO365Scan and the POST handlers of the o365scan route *)

TenantIds == {Undefined, "", "contoso"}

ClientIds == {Undefined, "app-id"}

ClientSecrets == {Undefined, "app-secret"}

\* the scanOptions of a config or of a request body
RequestOptions ==
  {UndefinedValue, NullValue, <<>>, [f \in Flags |-> FALSE], ("maxItems" :> 1)}

\* an O365ScanConfig, or the parsed body of a request
Requests ==
  [tenantId : TenantIds, clientId : ClientIds, clientSecret : ClientSecrets,
   scanOptions : RequestOptions]

\* x || d on strings
OrDefault(x, d) == IF Falsy(x) THEN d ELSE x

\* the default of the options parameter: options = {}
DefaultOptions(o) == IF o = UndefinedValue THEN <<>> ELSE o

\* scanOptions || {}
OptionsOrEmpty(o) == IF o \in {UndefinedValue, NullValue} THEN <<>> ELSE o

\* the options a caller passes to authenticateO365
AuthOptionsObjects ==
  [tenantId : TenantIds, clientId : {Undefined, "", "app-id"},
   clientSecret : {Undefined, "", "app-secret"}]

\* mutant: only the tenant id is validated
authenticateO365TenantOnly(o) ==
  IF o = NullValue
  THEN [authenticated |-> FALSE, token |-> Undefined, error |-> TypeErrorMessage]
  ELSE IF Falsy(o.tenantId)
  THEN [authenticated |-> FALSE, token |-> Undefined,
        error |-> "Missing required authentication parameters"]
  ELSE [authenticated |-> TRUE, token |-> "mock-token-1", error |-> Undefined]

\* the mock authentication: it fails when a parameter is missing; null
\* options throw inside its try, and its catch returns the failure
authenticateO365(o) ==
  IF o = NullValue
  THEN [authenticated |-> FALSE, token |-> Undefined, error |-> TypeErrorMessage]
  ELSE IF Falsy(o.tenantId) \/ Falsy(o.clientId) \/ Falsy(o.clientSecret)
  THEN [authenticated |-> FALSE, token |-> Undefined,
        error |-> "Missing required authentication parameters"]
  ELSE [authenticated |-> TRUE, token |-> "mock-token-1", error |-> Undefined]

\* one call of authenticateO365
AuthCall(o) == [options |-> o, returned |-> authenticateO365(o)]

\* the handlers of the route
Handlers == {"POST", "POSTWithDefaults"}

\* mutant: the second handler validates nothing
MissingParametersFirstOnly(handler, body) ==
  IF handler = "POST"
  THEN Falsy(body.tenantId) \/ Falsy(body.clientId) \/ Falsy(body.clientSecret)
  ELSE FALSE

\* the validation of the body: !tenantId || !clientId || !clientSecret in the
\* first handler, !tenantId in the second
MissingParameters(handler, body) ==
  IF handler = "POST"
  THEN Falsy(body.tenantId) \/ Falsy(body.clientId) \/ Falsy(body.clientSecret)
  ELSE Falsy(body.tenantId)

MissingMessage(handler) ==
  IF handler = "POST" THEN "Missing required authentication parameters"
  ELSE "Missing required parameter: tenantId"

\* the options passed to authenticateO365: the first handler passes the
\* body's values, the second handler and runO365Scan default the client id
\* and the client secret
AuthOptionsOf(caller, r) ==
  IF caller = "POST"
  THEN [tenantId |-> r.tenantId, clientId |-> r.clientId, clientSecret |-> r.clientSecret]
  ELSE [tenantId |-> r.tenantId, clientId |-> OrDefault(r.clientId, "demo-client-id"),
        clientSecret |-> OrDefault(r.clientSecret, "demo-client-secret")]

\* mutant: the result of the authentication is not looked at
AuthRejectedNever(auth) == FALSE

\* !authResult.authenticated
AuthRejected(auth) == ~auth.authenticated

NoResponse == [status |-> 0, error |-> Undefined, body |-> NoResult]

\* NextResponse.json({ error }, { status })
ErrorResponse(status, err) == [status |-> status, error |-> err, body |-> NoResult]

\* NextResponse.json(scanResult)
ScanResponse(r) == [status |-> 200, error |-> Undefined, body |-> r]

\* the value authenticateO365 returned to the entry
LastAuth == authLog[Len(authLog)].returned

\* the caller invokes authenticateO365 itself
CallAuthenticate(o) ==
  /\ entry = "none"
  /\ entry' = "authenticateO365"
  /\ authLog' = Append(authLog, AuthCall(o))
  /\ epc' = "returned"
  /\ UNCHANGED <<request, runResult, response>>
  /\ UNCHANGED <<svars, avars, rvars, ovars>>

\* runO365Scan up to its first await: a null config throws in the try, and
\* again in the catch, which reads config.tenantId
runO365Scan(config) ==
  /\ entry = "none"
  /\ entry' = "runO365Scan"
  /\ request' = config
  /\ IF config = NullValue
     THEN /\ epc' = "threw"
          /\ UNCHANGED authLog
     ELSE /\ authLog' = Append(authLog, AuthCall(AuthOptionsOf("runO365Scan", config)))
          /\ epc' = "awaitAuth"
  /\ UNCHANGED <<runResult, response>>
  /\ UNCHANGED <<svars, avars, rvars, ovars>>

\* the authentication has settled: runO365Scan returns the failed result or
\* calls the scan
RunAuthSettles ==
  /\ entry = "runO365Scan"
  /\ epc = "awaitAuth"
  /\ IF AuthRejected(LastAuth)
     THEN /\ runResult' = FailedResult("failed-",
                                       OrDefault(LastAuth.error, "Authentication failed"))
          /\ epc' = "returned"
          /\ UNCHANGED svars
     ELSE /\ ScanCall(LastAuth, DefaultOptions(request.scanOptions))
          /\ epc' = "awaitScan"
          /\ UNCHANGED runResult
  /\ UNCHANGED <<entry, request, authLog, response>>
  /\ UNCHANGED <<avars, rvars, ovars>>

\* the scan has settled: runO365Scan returns its result, or the failed
\* result of its catch when the scan's promise rejected
RunScanSettles ==
  /\ entry = "runO365Scan"
  /\ epc = "awaitScan"
  /\ pc \in {"done", "threw"}
  /\ runResult' = IF pc = "done" THEN result ELSE FailedResult("error-", thrown)
  /\ epc' = "returned"
  /\ UNCHANGED <<entry, request, authLog, response>>
  /\ UNCHANGED <<svars, avars, rvars, ovars>>

\* a POST handler up to its await of authenticateO365: a body that does not
\* parse to an object goes to the catch (500), a missing parameter is
\* answered 400
Post(handler, body) ==
  /\ entry = "none"
  /\ entry' = handler
  /\ request' = body
  /\ IF body = NullValue
     THEN /\ logged' = Append(logged, "Error processing O365 scan request:")
          /\ response' = ErrorResponse(500, TypeErrorMessage)
          /\ epc' = "returned"
          /\ UNCHANGED authLog
     ELSE IF MissingParameters(handler, body)
     THEN /\ response' = ErrorResponse(400, MissingMessage(handler))
          /\ epc' = "returned"
          /\ UNCHANGED <<authLog, logged>>
     ELSE /\ authLog' = Append(authLog, AuthCall(AuthOptionsOf(handler, body)))
          /\ epc' = "awaitAuth"
          /\ UNCHANGED <<response, logged>>
  /\ UNCHANGED <<variant, pc, authResult, options, clientCreated, requests, mockBuilt,
                 analyzed, result, thrown>>
  /\ UNCHANGED runResult
  /\ UNCHANGED <<avars, rvars, ovars>>

POST(body) == Post("POST", body)

POSTWithDefaults(body) == Post("POSTWithDefaults", body)

\* the authentication has settled: the handler answers 401 or calls the scan
PostAuthSettles ==
  /\ entry \in Handlers
  /\ epc = "awaitAuth"
  /\ IF AuthRejected(LastAuth)
     THEN /\ response' = ErrorResponse(401, OrDefault(LastAuth.error, "Authentication failed"))
          /\ epc' = "returned"
          /\ UNCHANGED svars
     ELSE /\ ScanCall(LastAuth, OptionsOrEmpty(request.scanOptions))
          /\ epc' = "awaitScan"
          /\ UNCHANGED response
  /\ UNCHANGED <<entry, request, authLog, runResult>>
  /\ UNCHANGED <<avars, rvars, ovars>>

\* the scan has settled: the handler answers with its result, or 500 from
\* its catch when the scan's promise rejected
PostScanSettles ==
  /\ entry \in Handlers
  /\ epc = "awaitScan"
  /\ pc \in {"done", "threw"}
  /\ IF pc = "done"
     THEN /\ response' = ScanResponse(result)
          /\ UNCHANGED logged
     ELSE /\ response' = ErrorResponse(500, thrown)
          /\ logged' = Append(logged, "Error processing O365 scan request:")
  /\ epc' = "returned"
  /\ UNCHANGED <<variant, pc, authResult, options, clientCreated, requests, mockBuilt,
                 analyzed, result, thrown>>
  /\ UNCHANGED <<entry, request, authLog, runResult>>
  /\ UNCHANGED <<avars, rvars, ovars>>

----------------------------------------------------------------------------
(* The state before the scoring alone, the two invocations and the page *)

NotScored == matchedRules = {}

\* two invocations of scanO365Tenant
Calls == {1, 2}

\* an invocation that has not started: its arguments, its local detections
\* array, the messages its request delivered, whether it ran while the other
\* invocation was waiting, and its result
IdleCall ==
  [pc |-> "idle", authResult |-> [authenticated |-> FALSE, token |-> Undefined],
   options |-> <<>>, detections |-> <<>>, delivered |-> <<>>, overlapped |-> FALSE,
   result |-> NoResult]

NotCalled ==
  /\ now = 0
  /\ calls = [k \in Calls |-> IdleCall]

\* null where a string is expected
Null == "<null>"

\* useState('targetproof.com'), useState(''), useState('')
InitialForm == [tenantId |-> "targetproof.com", clientId |-> "", clientSecret |-> ""]

NoFetch == [sent |-> UndefinedValue, ok |-> FALSE, status |-> 0, body |-> UndefinedValue]

\* the page after its first render
PageLoaded ==
  /\ form = InitialForm
  /\ ppc = "idle"
  /\ isLoading = FALSE
  /\ scanResult = NullValue
  /\ error = Null
  /\ submissions = 0
  /\ fetched = NoFetch

OthersIdle == NotScored /\ NotCalled /\ PageLoaded

----------------------------------------------------------------------------
(* The scan and its entry points *)

Idle ==
  /\ pc = "idle"
  /\ authResult = [authenticated |-> FALSE, token |-> Undefined]
  /\ options = <<>>
  /\ clientCreated = FALSE
  /\ requests = <<>>
  /\ mockBuilt = <<>>
  /\ analyzed = <<>>
  /\ result = NoResult
  /\ logged = <<>>
  /\ thrown = Undefined
  /\ entry = "none"
  /\ request = UndefinedValue
  /\ epc = "idle"
  /\ authLog = <<>>
  /\ runResult = NoResult
  /\ response = NoResponse

NotGenerated ==
  /\ summaryArg = UndefinedValue
  /\ generated = <<>>

Init ==
  /\ variant \in {"graph", "graphStub", "mock"}
  /\ Idle
  /\ NotGenerated
  /\ analyzer = "indicators"
  /\ OthersIdle
  /\ content = <<>>
  /\ analysis = NoAnalysis

Next ==
  \/ \E auth \in AuthArguments, opts \in OptionsArguments : scanO365Tenant(auth, opts)
  \/ \E msgs \in Responses : GraphResolves(msgs)
  \/ GraphRejects
  \/ \E auth \in AuthArguments, opts \in OptionsArguments : scanO365TenantMock(auth, opts)
  \/ MockTimerFires
  \/ \E config \in Requests \cup {NullValue} : runO365Scan(config)
  \/ RunAuthSettles
  \/ RunScanSettles
  \/ \E body \in Requests \cup {NullValue} : POST(body)
  \/ \E body \in Requests \cup {NullValue} : POSTWithDefaults(body)
  \/ PostAuthSettles
  \/ PostScanSettles
  \/ \E o \in AuthOptionsObjects \cup {NullValue} : CallAuthenticate(o)

Spec == Init /\ [][Next]_vars

----------------------------------------------------------------------------
(* The analyzer called on one content *)

InitAnalyze ==
  /\ analyzer \in Analyzers
  /\ content \in Contents
  /\ analysis = NoAnalysis
  /\ variant = "graph"
  /\ Idle
  /\ NotGenerated
  /\ OthersIdle

CallAnalyze ==
  /\ analysis = NoAnalysis
  /\ analysis' = Analyze(analyzer, content)
  /\ UNCHANGED <<analyzer, content>>
  /\ UNCHANGED <<svars, evars, rvars, ovars>>

NextAnalyze == CallAnalyze

SpecAnalyze == InitAnalyze /\ [][NextAnalyze]_vars

----------------------------------------------------------------------------
(* generateMockDetections of the results route *)

MaxGenerated == 3

\* the values Math.random() returns, in tenths
RandomTenths == {0, 9}

\* Math.floor(Math.random() * n) for a draw of r tenths
FloorOfDraw(r, n) == (r * n) \div 10

\* list[Math.floor(Math.random() * list.length)]
Pick(list, r) == list[FloorOfDraw(r, Len(list)) + 1]

\* what the three loops put into their detections
HighTier ==
  [severity |-> "HIGH", base |-> 80, span |-> 20,
   sources |-> <<"AWS EC2", "GCP Compute", "Azure VM">>,
   itemTypes |-> <<"UserData Script", "Startup Script", "Extension Script">>,
   content |-> <<"#!/bin/bash", NL, "curl", "...", "./xmrig", "-o", "pool.minexmr.com:4444">>,
   matches |-> <<[match |-> <<"xmrig">>, category |-> "Miner Binary", weight |-> 10],
                 [match |-> <<"pool.minexmr.com">>, category |-> "Mining Pool",
                  weight |-> 8]>>]

MediumTier ==
  [severity |-> "MEDIUM", base |-> 50, span |-> 30,
   sources |-> <<"AWS Lambda", "GCP Cloud Functions", "Azure Functions">>,
   itemTypes |-> <<"Function Code", "Deployment Script", "Configuration">>,
   content |-> <<"#!/bin/bash", NL, "apt-get", "update", "...", "hidden-miner", "&&",
                 "./build.sh">>,
   matches |-> <<[match |-> <<"hidden-miner">>, category |-> "Suspicious Name",
                  weight |-> 6]>>]

LowTier ==
  [severity |-> "LOW", base |-> 20, span |-> 30,
   sources |-> <<"Local System", "Container Image", "CloudFormation Template">>,
   itemTypes |-> <<"Cron Job", "Shell Script", "Configuration File">>,
   content |-> <<"*/15", "*", "*", "*", "*", "/usr/local/bin/monitor-cpu", "--threads=4",
                 "--background">>,
   matches |-> <<[match |-> <<"monitor-cpu">>, category |-> "Suspicious Name",
                  weight |-> 3]>>]

\* mutant: every loop numbers its detections from 1
GenerateTierIdFromOne(tier, before, count, draws) ==
  [i \in 1..count |->
     [id |-> i,
      severity |-> tier.severity,
      source |-> Pick(tier.sources, draws[3 * (before + i) - 2]),
      itemType |-> Pick(tier.itemTypes, draws[3 * (before + i) - 1]),
      score |-> tier.base + FloorOfDraw(draws[3 * (before + i)], tier.span),
      content |-> tier.content,
      matches |-> tier.matches]]

\* one loop: count detections after the before already pushed, each taking
\* three draws (source, item type, score) in turn
GenerateTier(tier, before, count, draws) ==
  [i \in 1..count |->
     [id |-> before + i,
      severity |-> tier.severity,
      source |-> Pick(tier.sources, draws[3 * (before + i) - 2]),
      itemType |-> Pick(tier.itemTypes, draws[3 * (before + i) - 1]),
      score |-> tier.base + FloorOfDraw(draws[3 * (before + i)], tier.span),
      content |-> tier.content,
      matches |-> tier.matches]]

\* the three loops, over the draws of Math.random in the order of the calls
generateMockDetections(summary, draws) ==
  GenerateTier(HighTier, 0, summary.high, draws)
  \o GenerateTier(MediumTier, summary.high, summary.medium, draws)
  \o GenerateTier(LowTier, summary.high + summary.medium, summary.low, draws)

\* the summaries of a stored result: the total may disagree with the counts
Summaries ==
  {s \in [total : 0..(MaxGenerated + 1), high : 0..MaxGenerated, medium : 0..MaxGenerated,
          low : 0..MaxGenerated] :
     /\ s.high + s.medium + s.low <= MaxGenerated
     /\ s.total - (s.high + s.medium + s.low) \in {0, 1}}

InitResults ==
  /\ NotGenerated
  /\ variant = "graph"
  /\ Idle
  /\ OthersIdle
  /\ analyzer = "indicators"
  /\ content = <<>>
  /\ analysis = NoAnalysis

CallGenerate(summary, draws) ==
  /\ summaryArg = UndefinedValue
  /\ summaryArg' = summary
  /\ generated' = generateMockDetections(summary, draws)
  /\ UNCHANGED <<svars, evars, avars, ovars>>

NextResults ==
  \E summary \in Summaries :
    \E draws \in [1..(3 * (summary.high + summary.medium + summary.low)) -> RandomTenths] :
      CallGenerate(summary, draws)

SpecResults == InitResults /\ [][NextResults]_vars

----------------------------------------------------------------------------
(* Two invocations of the Graph scan and the clock *)

MaxClock == 2

TwoAuths ==
  {[authenticated |-> TRUE, token |-> "mock-token-1"],
   [authenticated |-> FALSE, token |-> Undefined]}

TwoOptions == {<<>>, [includeEmail |-> FALSE]}

\* what the Graph API delivers to an invocation
TwoResponses ==
  {<<>>,
   <<[body |-> TRUE, content |-> <<"xmrig">>]>>,
   <<[body |-> TRUE, content |-> MediumKit], [body |-> TRUE, content |-> <<"hello">>]>>,
   <<[body |-> TRUE, content |-> <<"xmrig">>], [body |-> FALSE, content |-> <<>>]>>}

\* `failed-${Date.now()}`, `o365-scan-${Date.now()}`, `error-${Date.now()}`:
\* the prefix of the result followed by the millisecond of the clock
Stamped(r, t) == [r EXCEPT !.scanId = <<r.scanId, t>>]

\* the other invocation
Other(k) == CHOOSE j \in Calls : j # k

\* mutant: one array at module level, not emptied by a call
NewDetectionsShared(existing) == existing

\* const detections: any[] = [] in the body of the function
NewDetections(existing) == <<>>

\* invocation k up to its first await
TwoCall(k, auth, opts) ==
  /\ calls[k].pc = "idle"
  /\ LET started == [calls[k] EXCEPT !.authResult = auth, !.options = opts,
                                    !.overlapped = calls[Other(k)].pc = "awaitGet"]
         mine == NewDetections(calls[Other(k)].detections)
         other == [calls[Other(k)] EXCEPT
                     !.overlapped = @ \/ calls[Other(k)].pc = "awaitGet"]
     IN calls' =
          (Other(k) :> other) @@
          (k :> IF AuthFailed(auth)
                THEN [started EXCEPT
                        !.pc = "done",
                        !.result = Stamped(FailedResult("failed-", "Authentication required"),
                                           now)]
                ELSE IF EmailEnabled(opts)
                THEN [started EXCEPT !.pc = "awaitGet", !.detections = mine]
                ELSE [started EXCEPT !.pc = "done", !.detections = mine,
                                     !.result = Stamped(CompletedResult(mine), now)])
  /\ UNCHANGED now
  /\ UNCHANGED <<svars, evars, avars, rvars, wvars, pvars>>

\* the request of invocation k resolves
TwoResolves(k, msgs) ==
  /\ calls[k].pc = "awaitGet"
  /\ LET r == ScanMessages("indicators", msgs, 1,
                            [detections |-> calls[k].detections, analyzed |-> <<>>])
     IN calls' = [calls EXCEPT ![k].pc = "done", ![k].delivered = msgs,
                               ![k].detections = r.detections,
                               ![k].result = Stamped(CompletedResult(r.detections), now)]
  /\ UNCHANGED now
  /\ UNCHANGED <<svars, evars, avars, rvars, wvars, pvars>>

\* the request of invocation k rejects
TwoRejects(k) ==
  /\ calls[k].pc = "awaitGet"
  /\ calls' = [calls EXCEPT ![k].pc = "done",
                            ![k].result = Stamped(CompletedResult(calls[k].detections), now)]
  /\ UNCHANGED now
  /\ UNCHANGED <<svars, evars, avars, rvars, wvars, pvars>>

\* a millisecond passes
Tick ==
  /\ now < MaxClock
  /\ now' = now + 1
  /\ UNCHANGED calls
  /\ UNCHANGED <<svars, evars, avars, rvars, wvars, pvars>>

InitTwo ==
  /\ variant = "graph"
  /\ Idle
  /\ NotGenerated
  /\ OthersIdle
  /\ analyzer = "indicators"
  /\ content = <<>>
  /\ analysis = NoAnalysis

NextTwo ==
  \/ \E k \in Calls, auth \in TwoAuths, opts \in TwoOptions : TwoCall(k, auth, opts)
  \/ \E k \in Calls, msgs \in TwoResponses : TwoResolves(k, msgs)
  \/ \E k \in Calls : TwoRejects(k)
  \/ Tick

SpecTwo == InitTwo /\ [][NextTwo]_vars

----------------------------------------------------------------------------
(* The scoring alone: the loop of an analyzer with the outcome of every   *)
(* test given, which covers every set of matching rules                    *)

\* the loop over the catalog: a Match is pushed for every rule whose test is
\* positive, in the order of the catalog
RECURSIVE MatchesOfRules(_, _, _, _)
MatchesOfRules(cat, S, k, matches) ==
  IF k > Len(cat) THEN matches
  ELSE MatchesOfRules(cat, S, k + 1,
                      IF k \in S THEN Append(matches, Match(<<>>, cat[k])) ELSE matches)

\* the value the analyzer returns for these matches: the capped sum of the
\* weights next to the Graph scan, the normalised sum in the exported one
ScoreRules(which, matches) ==
  IF which = "indicators"
  THEN CapScore([matches |-> matches, score |-> ReduceWeight(matches, 1, 0)])
  ELSE ScoreOfMatches(matches)

InitScore ==
  /\ analyzer \in {"indicators", "exported"}
  /\ matchedRules \in SUBSET (1..Len(CatalogOf(analyzer)))
  /\ analysis = NoAnalysis
  /\ content = <<>>
  /\ variant = "graph"
  /\ Idle
  /\ NotGenerated
  /\ NotCalled
  /\ PageLoaded

CallScore ==
  /\ analysis = NoAnalysis
  /\ analysis' = ScoreRules(analyzer, MatchesOfRules(CatalogOf(analyzer), matchedRules, 1, <<>>))
  /\ UNCHANGED <<analyzer, content>>
  /\ UNCHANGED <<svars, evars, rvars, ovars>>

NextScore == CallScore

SpecScore == InitScore /\ [][NextScore]_vars

----------------------------------------------------------------------------
(* The O365 scan page: handleSubmit *)

MaxSubmissions == 2

\* the values typed into the three inputs
FormValues ==
  [tenantId |-> {"", "targetproof.com"}, clientId |-> {"", "app-id"},
   clientSecret |-> {"", "app-secret"}]

\* the body of the request: JSON.stringify drops a property that is undefined
RequestBody(f) ==
  [tenantId |-> f.tenantId, clientId |-> OrDefault(f.clientId, Undefined),
   clientSecret |-> OrDefault(f.clientSecret, Undefined)]

\* the bodies of the answers: the scan result or { error } of the route, an
\* object without an error, and a body that is not JSON
ResultBody(st) == [json |-> TRUE, error |-> Undefined, status |-> st]

ErrorBody(err) == [json |-> TRUE, error |-> err, status |-> Undefined]

EmptyBody == [json |-> TRUE, error |-> Undefined, status |-> Undefined]

NotJson == [json |-> FALSE, error |-> Undefined, status |-> Undefined]

\* Response.ok
Ok(status) == status >= 200 /\ status <= 299

HttpResponses ==
  {[status |-> 200, body |-> ResultBody(st)] : st \in {"completed", "failed"}}
    \cup {[status |-> 400, body |-> ErrorBody("Missing required authentication parameters")],
          [status |-> 401, body |-> ErrorBody("Authentication failed")],
          [status |-> 500, body |-> ErrorBody("Internal server error")],
          [status |-> 500, body |-> EmptyBody],
          [status |-> 502, body |-> NotJson]}

\* mutant: the result is stored before the status is tested
OutcomeBeforeOkCheck(ok, data) ==
  IF ~data.json
  THEN [scanResult |-> NullValue, error |-> "Unexpected token < in JSON at position 0"]
  ELSE IF ~ok
  THEN [scanResult |-> data, error |-> OrDefault(data.error, "Failed to run scan")]
  ELSE [scanResult |-> data, error |-> Null]

\* what the try and the catch of handleSubmit leave in scanResult and error
\* once response.json() has settled
Outcome(ok, data) ==
  IF ~data.json
  THEN [scanResult |-> NullValue, error |-> "Unexpected token < in JSON at position 0"]
  ELSE IF ~ok
  THEN [scanResult |-> NullValue, error |-> OrDefault(data.error, "Failed to run scan")]
  ELSE [scanResult |-> data, error |-> Null]

\* onChange of an input
EditForm(field, value) ==
  /\ form[field] # value
  /\ form' = [form EXCEPT ![field] = value]
  /\ UNCHANGED <<ppc, isLoading, scanResult, error, submissions, fetched>>
  /\ UNCHANGED <<svars, evars, avars, rvars, wvars, tvars>>

\* the Reset button
ResetForm ==
  /\ form # InitialForm
  /\ form' = InitialForm
  /\ UNCHANGED <<ppc, isLoading, scanResult, error, submissions, fetched>>
  /\ UNCHANGED <<svars, evars, avars, rvars, wvars, tvars>>

\* handleSubmit up to its first await
handleSubmit ==
  /\ ppc = "idle"
  /\ submissions < MaxSubmissions
  /\ submissions' = submissions + 1
  /\ isLoading' = TRUE
  /\ error' = Null
  /\ scanResult' = NullValue
  /\ fetched' = [NoFetch EXCEPT !.sent = RequestBody(form)]
  /\ ppc' = "awaitFetch"
  /\ UNCHANGED form
  /\ UNCHANGED <<svars, evars, avars, rvars, wvars, tvars>>

\* fetch rejects: the catch stores the message, the finally clears isLoading
FetchRejects ==
  /\ ppc = "awaitFetch"
  /\ error' = "Failed to fetch"
  /\ isLoading' = FALSE
  /\ ppc' = "idle"
  /\ UNCHANGED <<form, scanResult, submissions, fetched>>
  /\ UNCHANGED <<svars, evars, avars, rvars, wvars, tvars>>

\* fetch resolves with a response
FetchResolves(resp) ==
  /\ ppc = "awaitFetch"
  /\ fetched' = [fetched EXCEPT !.ok = Ok(resp.status), !.status = resp.status,
                                !.body = resp.body]
  /\ ppc' = "awaitJson"
  /\ UNCHANGED <<form, isLoading, scanResult, error, submissions>>
  /\ UNCHANGED <<svars, evars, avars, rvars, wvars, tvars>>

\* response.json() settles: the rest of the try, the catch and the finally
JsonSettles ==
  /\ ppc = "awaitJson"
  /\ LET o == Outcome(fetched.ok, fetched.body)
     IN /\ scanResult' = (IF o.scanResult = NullValue THEN scanResult ELSE o.scanResult)
        /\ error' = (IF o.error = Null THEN error ELSE o.error)
  /\ isLoading' = FALSE
  /\ ppc' = "idle"
  /\ UNCHANGED <<form, submissions, fetched>>
  /\ UNCHANGED <<svars, evars, avars, rvars, wvars, tvars>>

InitPage ==
  /\ analyzer = "indicators"
  /\ analysis = NoAnalysis
  /\ content = <<>>
  /\ variant = "graph"
  /\ Idle
  /\ NotGenerated
  /\ NotScored
  /\ NotCalled
  /\ PageLoaded

NextPage ==
  \/ \E field \in DOMAIN FormValues : \E value \in FormValues[field] : EditForm(field, value)
  \/ ResetForm
  \/ handleSubmit
  \/ FetchRejects
  \/ \E resp \in HttpResponses : FetchResolves(resp)
  \/ JsonSettles

SpecPage == InitPage /\ [][NextPage]_vars

----------------------------------------------------------------------------
(* Properties of the analyzers, checked under SpecAnalyze *)

Analyzed == analysis # NoAnalysis

\* the rules of the called analyzer's catalog whose pattern occurs in the content
MatchingRules ==
  {k \in 1..Len(CatalogOf(analyzer)) : Occurrences(content, CatalogOf(analyzer)[k].pattern) >= 1}

\* the summed weight of the distinct matching rules
MatchedWeight == SumWeights(CatalogOf(analyzer), MatchingRules)

\* the entries of the returned matches that carry the category and weight of rule k
EntriesOfRule(k) ==
  {i \in 1..Len(analysis.matches) :
     /\ analysis.matches[i].category = CatalogOf(analyzer)[k].category
     /\ analysis.matches[i].weight = CatalogOf(analyzer)[k].weight}

\* C1 as stated: whichever analyzer is called, the score is
\* min(100, summed weight of the distinct catalog rules that match).
C1_ScoreIsCappedSumEverywhere ==
  Analyzed => analysis.score = Min(100, MatchedWeight)

\* C1 amended: the analyzer of the Graph scan returns min(100, W) for the
\* summed weight W of the distinct matching rules; the exported analyzer over
\* CRYPTO_PATTERNS returns min(100, the integer nearest to 100 * W / 30).
C1_ScoreByAnalyzer ==
  Analyzed =>
    LET W == MatchedWeight
    IN /\ analyzer \in {"indicators", "stub"} => analysis.score = Min(100, W)
       /\ analyzer = "exported" =>
            IF 10 * W >= 300 THEN analysis.score = 100
            ELSE /\ 3 * analysis.score - 10 * W \in -1..1
                 /\ analysis.score <= 100

C1_Witness ==
  /\ Analyzed
  /\ analyzer = "indicators"
  /\ analysis.score = 15
  /\ MatchingRules = {1, 2}

\* C2: a content that no rule of the catalog matches, the empty content
\* among them, is scored 0 with an empty list of matches.
C2_NoMatchScoresZero ==
  (Analyzed /\ MatchingRules = {}) => (analysis.score = 0 /\ analysis.matches = <<>>)

C2_Witness ==
  /\ Analyzed
  /\ analyzer \in {"indicators", "exported"}
  /\ Len(content) >= 2
  /\ MatchingRules = {}
  /\ analysis.score = 0

\* C3: a rule gives one Match when its pattern occurs and none otherwise,
\* however often it occurs; repeating the whole content on a second line,
\* which doubles the occurrences of every pattern, changes neither the score
\* nor the number of matches.
C3_OncePerRule ==
  Analyzed =>
    /\ LET matching == MatchingRules
       IN /\ \A k \in 1..Len(CatalogOf(analyzer)) :
               Cardinality(EntriesOfRule(k)) = IF k \in matching THEN 1 ELSE 0
          /\ Len(analysis.matches) = Cardinality(matching)
    /\ LET twice == Analyze(analyzer, content \o <<NL>> \o content)
       IN /\ twice.score = analysis.score
          /\ Len(twice.matches) = Len(analysis.matches)

C3_Witness ==
  /\ Analyzed
  /\ analyzer = "indicators"
  /\ analysis.score = 8
  /\ Occurrences(content, indicators[1].pattern) >= 3

\* C4: the score is an integer from 0 to 100, whichever analyzer is called.
C4_ScoreInRange == Analyzed => analysis.score \in 0..100

C4_Witness ==
  /\ Analyzed
  /\ analyzer = "exported"
  /\ analysis.score = 100
  /\ MatchedWeight > 30

\* the categories the catalogs give to miner software and to mining pools
SoftwareCategories == {"MinerSoftware", "Mining Software"}

PoolCategories == {"MiningPool", "Mining Pool"}

\* C21 as stated: in each catalog the scenario content matches a
\* miner-software rule on xmrig and a mining-pool rule on stratum+tcp, and
\* the matched weight is at least 17.
C21_ScenarioMatchesSoftwareAndPool ==
  (Analyzed /\ content = Scenario /\ analyzer \in {"indicators", "exported"}) =>
    /\ \E i \in 1..Len(analysis.matches) :
         /\ analysis.matches[i].category \in SoftwareCategories
         /\ analysis.matches[i].match = <<"xmrig">>
    /\ \E i \in 1..Len(analysis.matches) :
         /\ analysis.matches[i].category \in PoolCategories
         /\ analysis.matches[i].match = <<"stratum+tcp">>
    /\ MatchedWeight >= 17

\* the matching rules below rule k
MatchingBelow(k) == {j \in MatchingRules : j < k}

\* the texts a first match of the pattern may have: a match that starts
\* where no match starts earlier, by the first alternative that matches there
FirstMatchTexts(c, pattern) ==
  {AltText(c, pattern[h[2]], h[1], h[3]) :
     h \in {g \in Hits(c, pattern) :
              \A f \in Hits(c, pattern) : g[1] < f[1] \/ (g[1] = f[1] /\ g[2] <= f[2])}}

\* C22: the matches are in the order of the catalog, one for each matching
\* rule, and each carries the first matched substring of the content with
\* the category and the weight of its rule.
C22_MatchesInCatalogOrder ==
  Analyzed =>
    /\ Len(analysis.matches) = Cardinality(MatchingRules)
    /\ \A k \in MatchingRules :
         LET m == analysis.matches[Cardinality(MatchingBelow(k)) + 1]
         IN /\ m.category = CatalogOf(analyzer)[k].category
            /\ m.weight = CatalogOf(analyzer)[k].weight
            /\ m.match \in FirstMatchTexts(content, CatalogOf(analyzer)[k].pattern)

C22_Witness ==
  /\ Analyzed
  /\ analyzer = "indicators"
  /\ content = <<"monero", "xmrig", "monero">>
  /\ Len(analysis.matches) = 2
  /\ analysis.matches[1].match = <<"xmrig">>
  /\ analysis.matches[2].match = <<"monero">>

----------------------------------------------------------------------------
(* Properties of the scan, checked under Spec *)

Returned == pc = "done"

\* the flag that gates a source
FlagOfSource(source) ==
  CASE source = "Exchange Online" -> "includeEmail"
    [] source = "SharePoint Online" -> "includeSharePoint"
    [] source = "OneDrive" -> "includeOneDrive"
    [] source = "Teams" -> "includeTeams"
    [] OTHER -> "none"

\* the sources the scan has fetched from the Graph API
FetchedSources == {SourceOfRequest(requests[i]) : i \in 1..Len(requests)}

\* the sources the mock scan has produced entries for
ProducedSources == {mockBuilt[i].source : i \in 1..Len(mockBuilt)}

AnalyzedSources == {analyzed[i].source : i \in 1..Len(analyzed)}

DetectedSources == {result.detections[i].source : i \in 1..Len(result.detections)}

AllFlagsFalse == \A f \in Flags : IsFalse(options, f)

\* C5: a scan called with an authentication result that is not successful
\* returns at once, failed, with the empty summary, no detections and an error,
\* and without a Graph client, a request, an analyzed item or a mock table.
C5_UnauthenticatedFails ==
  (/\ pc # "idle"
   /\ authResult # NullValue
   /\ (~authResult.authenticated \/ authResult.token \in {Undefined, ""})) =>
    /\ Returned
    /\ result.status = "failed"
    /\ result.summary = [total |-> 0, high |-> 0, medium |-> 0, low |-> 0]
    /\ result.detections = <<>>
    /\ result.error \notin {Undefined, ""}
    /\ ~clientCreated
    /\ requests = <<>>
    /\ mockBuilt = <<>>
    /\ analyzed = <<>>

C5_Witness ==
  /\ Returned
  /\ authResult.authenticated
  /\ authResult.token = Undefined
  /\ result.status = "failed"

\* C6: in a completed result the total is the sum of the three severity
\* counts and the length of the detections.
C6_SummaryAddsUp ==
  (Returned /\ result.status = "completed") =>
    /\ result.summary.total = result.summary.high + result.summary.medium + result.summary.low
    /\ result.summary.total = Len(result.detections)

C6_Witness ==
  /\ Returned
  /\ variant = "graph"
  /\ result.status = "completed"
  /\ result.summary.high = 1
  /\ result.summary.low = 1
  /\ Len(result.detections) = 2

\* C7 as stated: with the four flags false the result has total 0 and no
\* detections, nothing is fetched and no mock content is generated.
C7_AllFalseTouchesNothing ==
  (Returned /\ AllFlagsFalse) =>
    /\ result.summary.total = 0
    /\ result.detections = <<>>
    /\ requests = <<>>
    /\ analyzed = <<>>
    /\ mockBuilt = <<>>

\* C7 amended: with the four flags false the result has total 0 and no
\* detections, no request is issued and no item is analyzed (the mock scan
\* still builds its fixed table before it filters every entry out).
C7_AllFalseFetchesNothing ==
  (Returned /\ AllFlagsFalse) =>
    /\ result.summary.total = 0
    /\ result.detections = <<>>
    /\ requests = <<>>
    /\ analyzed = <<>>

C7_Witness ==
  /\ Returned
  /\ AllFlagsFalse
  /\ ~AuthFailed(authResult)
  /\ variant = "graph"
  /\ result.status = "completed"

\* C8 as stated: a source whose flag is false is neither fetched nor
\* produced, and has no detection in the result.
C8_ExcludedSourceNeverProduced ==
  Returned =>
    \A f \in Flags : IsFalse(options, f) =>
      \A s \in FetchedSources \cup AnalyzedSources \cup DetectedSources \cup ProducedSources :
        FlagOfSource(s) # f

\* C8 amended: a source whose flag is false is not requested from the Graph
\* API, none of its items is analyzed and it has no detection in the result
\* (the mock scan builds the entries of the source and filters them out).
C8_ExcludedSourceNotFetched ==
  Returned =>
    \A f \in Flags : IsFalse(options, f) =>
      \A s \in FetchedSources \cup AnalyzedSources \cup DetectedSources : FlagOfSource(s) # f

C8_Witness ==
  /\ Returned
  /\ variant = "mock"
  /\ IsFalse(options, "includeTeams")
  /\ ~IsFalse(options, "includeEmail")
  /\ Len(result.detections) = 4

\* C9: in a completed scan every source whose flag is true or absent has
\* been requested from the provider of the content.
C9_EveryEnabledSourceRequested ==
  (Returned /\ result.status = "completed") =>
    \A f \in Flags : ~IsFalse(options, f) =>
      \E s \in FetchedSources \cup ProducedSources : FlagOfSource(s) = f

\* C10: the ids of the detections of a result increase strictly along the
\* list, so no two are equal.
C10_IdsIncrease ==
  Returned =>
    \A i, j \in 1..Len(result.detections) :
      i < j => result.detections[i].id < result.detections[j].id

C10_Witness ==
  /\ Returned
  /\ variant = "graph"
  /\ Len(result.detections) = 2
  /\ result.detections[2].score = 80

\* C11 as stated: the ids of the detections of a result are 1, 2, ..., n
\* along the list, also when flags exclude sources.
C11_IdsAreOneToN ==
  Returned => \A i \in 1..Len(result.detections) : result.detections[i].id = i

\* the analyzed items that scored above 0, in the order of analysis
PositiveItems == SelectSeq(analyzed, LAMBDA a : a.score > 0)

\* C13: every detection of a result has a score above 0 and at least one
\* match, and the detections of a Graph scan are exactly the analyzed items
\* that scored above 0, in order: an item that scores 0, the empty content
\* among them, gives no detection.
C13_EmittedIffScorePositive ==
  Returned =>
    /\ \A i \in 1..Len(result.detections) :
         /\ result.detections[i].score > 0
         /\ Len(result.detections[i].matches) >= 1
    /\ variant # "mock" =>
         LET positive == PositiveItems
         IN /\ Len(result.detections) = Len(positive)
            /\ \A i \in 1..Len(positive) :
                 /\ result.detections[i].score = positive[i].score
                 /\ result.detections[i].content = Preview(positive[i].content)

C13_Witness ==
  /\ Returned
  /\ variant = "graph"
  /\ Len(analyzed) = 2
  /\ analyzed[1].content = <<>>
  /\ analyzed[1].score = 0
  /\ analyzed[2].score > 0
  /\ Len(result.detections) = 1

\* the catch of the Exchange Online source has run
SourceFailed == \E i \in 1..Len(logged) : logged[i] = "Error scanning Exchange Online:"

\* C14 as stated: when the request of a source rejects, or an item of the
\* source raises while it is processed, the source has no detection in the
\* result, the scan returns completed and its error field is not set.
C14_FailedSourceContributesNothing ==
  (Returned /\ SourceFailed) =>
    /\ "Exchange Online" \notin DetectedSources
    /\ result.status = "completed"
    /\ result.error = Undefined

\* C14 amended: when the request of a source rejects, the source has no
\* detection in the result; when an item raises while it is processed, the
\* detections of the items analyzed before it stay in the result and the
\* items after it are skipped.  Either way the scan returns completed and
\* its error field is not set.
C14_FailedSourceKeepsEarlierDetections ==
  (Returned /\ SourceFailed) =>
    /\ Len(result.detections) = Len(PositiveItems)
    /\ analyzed = <<>> => result.detections = <<>>
    /\ result.summary.total = Len(result.detections)
    /\ result.status = "completed"
    /\ result.error = Undefined

C14_Witness ==
  /\ Returned
  /\ SourceFailed
  /\ variant = "graph"
  /\ Len(analyzed) = 1
  /\ Len(result.detections) = 1
  /\ result.status = "completed"

\* C15 as stated: no call of scanO365Tenant or runO365Scan lets an exception
\* reach its caller, whatever the arguments, null among them.
C15_NoExceptionReachesCaller == pc # "threw" /\ epc # "threw"

\* a failed result is empty and says why
FailedIsEmpty(r) ==
  r.status = "failed" =>
    /\ r.detections = <<>>
    /\ r.summary = [total |-> 0, high |-> 0, medium |-> 0, low |-> 0]
    /\ r.error \notin {Undefined, ""}

\* C16: a failed result, of the scan, of runO365Scan or in the body of a
\* response, has no detections, the all-zero summary and a non-empty error,
\* also when detections had been built before the failure.
C16_FailedResultIsEmpty ==
  /\ FailedIsEmpty(result)
  /\ FailedIsEmpty(runResult)
  /\ FailedIsEmpty(response.body)

C16_Witness ==
  /\ entry = "runO365Scan"
  /\ epc = "returned"
  /\ mockBuilt # <<>>
  /\ pc = "threw"
  /\ runResult.status = "failed"

\* a returned result is final
Terminal(r) == r.status \in {"completed", "failed"}

C18_ScanOnlyAfterAuthentication ==
  entry \in Handlers \cup {"runO365Scan"} =>
    /\ pc # "idle" =>
         /\ authLog # <<>>
         /\ LastAuth.authenticated
         /\ authResult = LastAuth
    /\ (authLog # <<>> /\ ~LastAuth.authenticated /\ epc # "awaitAuth") =>
         /\ pc = "idle"
         /\ result = NoResult
         /\ epc = "returned"
         /\ entry = "runO365Scan" =>
              (runResult.status = "failed" /\ runResult.detections = <<>>)
         /\ entry \in Handlers => (response.status = 401 /\ response.body = NoResult)

C18_Witness ==
  /\ entry = "runO365Scan"
  /\ epc = "returned"
  /\ authLog # <<>>
  /\ ~LastAuth.authenticated
  /\ runResult.status = "failed"

\* C19: a POST whose body has no tenant id is answered 400, and neither
\* authenticateO365 nor the scan has been called.
C19_MissingTenantAnswered400 ==
  (entry \in Handlers /\ request # NullValue /\ Falsy(request.tenantId)) =>
    /\ epc = "returned"
    /\ response.status = 400
    /\ authLog = <<>>
    /\ pc = "idle"
    /\ ~clientCreated

C19_Witness ==
  /\ entry = "POSTWithDefaults"
  /\ request # NullValue
  /\ request.tenantId = Undefined
  /\ request.clientId = "app-id"
  /\ request.clientSecret = "app-secret"
  /\ response.status = 400

\* the items of a source handed to the analyzer
ItemsOf(s) == {i \in 1..Len(analyzed) : analyzed[i].source = s}

\* C20 as stated: when the options carry maxItems, no more than maxItems
\* items of a source are analyzed.
C20_AtMostMaxItemsAnalyzed ==
  (Returned /\ "maxItems" \in DOMAIN options) =>
    \A s \in AnalyzedSources : Cardinality(ItemsOf(s)) <= options["maxItems"]

\* the place of a source in the order Email, SharePoint, OneDrive, Teams
SourceRank(source) ==
  CASE source = "Exchange Online" -> 1
    [] source = "SharePoint Online" -> 2
    [] source = "OneDrive" -> 3
    [] source = "Teams" -> 4
    [] OTHER -> 5

\* C23 as stated: in a returned list the detections of a source are
\* contiguous and the sources come in the order Email, SharePoint, OneDrive,
\* Teams.
C23_SourcesInFixedOrder ==
  Returned =>
    \A i, j \in 1..Len(result.detections) :
      i < j => SourceRank(result.detections[i].source) <= SourceRank(result.detections[j].source)

\* the options carry the three parameters
AllParameters(o) ==
  /\ o # NullValue
  /\ o.tenantId \notin {Undefined, ""}
  /\ o.clientId \notin {Undefined, ""}
  /\ o.clientSecret \notin {Undefined, ""}

\* C28: authenticateO365 returns authenticated exactly when the tenant id,
\* the client id and the client secret are non-empty, then with a non-empty
\* token, which the check of the scan accepts; otherwise it returns not
\* authenticated, with a non-empty error and no token; it never raises.
C28_AuthenticatedIffAllParameters ==
  /\ \A i \in 1..Len(authLog) :
       LET r == authLog[i].returned
       IN /\ r.authenticated <=> AllParameters(authLog[i].options)
          /\ r.authenticated =>
               /\ r.token \notin {Undefined, ""}
               /\ ~(~r.authenticated \/ r.token \in {Undefined, ""})
          /\ ~r.authenticated =>
               /\ r.token = Undefined
               /\ r.error \notin {Undefined, ""}
  /\ entry = "authenticateO365" => (epc = "returned" /\ Len(authLog) = 1)

C28_Witness ==
  /\ entry = "authenticateO365"
  /\ authLog[1].options # NullValue
  /\ authLog[1].options.tenantId = "contoso"
  /\ authLog[1].options.clientId = ""
  /\ authLog[1].options.clientSecret = "app-secret"
  /\ ~authLog[1].returned.authenticated

----------------------------------------------------------------------------
(* Properties of two invocations, checked under SpecTwo *)

BothReturned == \A k \in Calls : calls[k].pc = "done"

\* C24 as stated: two invocations return results with different scanIds,
\* also when they run side by side or within one millisecond.
C24_ScanIdsDiffer ==
  BothReturned => calls[1].result.scanId # calls[2].result.scanId

\* the detections an invocation returns when it runs alone
AloneDetections(call) ==
  IF AuthFailed(call.authResult) \/ ~EmailEnabled(call.options) THEN <<>>
  ELSE ScanMessages("indicators", call.delivered, 1,
                    [detections |-> <<>>, analyzed |-> <<>>]).detections

\* the detections of both invocations
AllDetections ==
  UNION {{calls[k].result.detections[i] : i \in 1..Len(calls[k].result.detections)} :
           k \in Calls}

----------------------------------------------------------------------------
(* Properties of the scoring, checked under SpecScore *)

\* the summed weight of the rules taken as matching
TakenWeight == SumWeights(CatalogOf(analyzer), matchedRules)

\* C26: with the 11 rules of the Graph scan's analyzer the score is the
\* summed weight, at most 80, so below the cap; a score that is HIGH needs
\* at least 10 matching rules, and one matching rule alone is LOW.
C26_ElevenRulesStayBelowCap ==
  (Analyzed /\ analyzer = "indicators") =>
    /\ [k \in 1..Len(indicators) |-> indicators[k].weight] = <<8, 7, 9, 8, 7, 6, 5, 8, 9, 7, 6>>
    /\ analysis.score = TakenWeight
    /\ analysis.score <= 80
    /\ Severity(analysis.score) = "HIGH" => Cardinality(matchedRules) >= 10
    /\ Cardinality(matchedRules) = 1 => Severity(analysis.score) = "LOW"

C26_Witness ==
  /\ Analyzed
  /\ analyzer = "indicators"
  /\ Cardinality(matchedRules) = 10
  /\ analysis.score = 75
  /\ Severity(analysis.score) = "HIGH"

\* C27: the exported analyzer scores a matched weight W as the integer
\* nearest to 100 * W / 30, capped at 100: W of 30 or more scores 100, a
\* smaller W never scores more than a larger one, any match scores at least
\* 20 and a single rule scores from 20 to 33.
C27_ExportedScoreNormalised ==
  (Analyzed /\ analyzer = "exported") =>
    LET W == TakenWeight
    IN /\ IF W >= 30 THEN analysis.score = 100
          ELSE 3 * analysis.score - 10 * W \in -1..1
       /\ analysis.score <= 100
       /\ \A S \in SUBSET (1..Len(CRYPTO_PATTERNS)) :
            SumWeights(CRYPTO_PATTERNS, S) <= W =>
              ScoreRules("exported", MatchesOfRules(CRYPTO_PATTERNS, S, 1, <<>>)).score
                <= analysis.score
       /\ matchedRules # {} => analysis.score >= 20
       /\ Cardinality(matchedRules) = 1 => analysis.score \in 20..33

C27_Witness ==
  /\ Analyzed
  /\ analyzer = "exported"
  /\ matchedRules = {2}
  /\ analysis.score = 33

----------------------------------------------------------------------------
(* Properties of the scan page, checked under SpecPage *)

\* a submission has finished and none is running
Finished == ppc = "idle" /\ submissions > 0

\* C29: over submissions that each start after the previous one finished,
\* isLoading is true from the start of handleSubmit until the request has
\* settled and false afterwards; after a finished submission exactly one of
\* scanResult and error is non-null; scanResult is set only for an answer
\* whose status is ok.
C29_LoadingAndOneOutcome ==
  /\ isLoading <=> ppc # "idle"
  /\ Finished => ((scanResult # NullValue) <=> (error = Null))
  /\ scanResult # NullValue =>
       /\ Finished
       /\ fetched.status >= 200 /\ fetched.status <= 299
       /\ scanResult = fetched.body

C29_Witness ==
  /\ Finished
  /\ submissions = 2
  /\ fetched.status = 401
  /\ error = "Authentication failed"
  /\ scanResult = NullValue
  /\ ~isLoading

----------------------------------------------------------------------------
(* Properties of the results route, checked under SpecResults *)

Generated == summaryArg # UndefinedValue

\* the severity the thresholds give a score
SeverityFollowsScore(d) ==
  /\ d.severity = "HIGH" <=> d.score > 70
  /\ d.severity = "MEDIUM" <=> (d.score > 40 /\ d.score <= 70)
  /\ d.severity = "LOW" <=> (d.score > 0 /\ d.score <= 40)

\* C12 as stated, for the detections of the results route: the severity of
\* every generated detection follows from its score by the thresholds
\* (HIGH above 70, MEDIUM above 40 up to 70, LOW above 0 up to 40).
C12_GeneratedSeverityFollowsScore ==
  Generated => \A i \in 1..Len(generated) : SeverityFollowsScore(generated[i])

\* the severity the summary gives the i-th generated detection
TierOfPosition(i) ==
  IF i <= summaryArg.high THEN "HIGH"
  ELSE IF i <= summaryArg.high + summaryArg.medium THEN "MEDIUM"
  ELSE "LOW"

\* C30: generateMockDetections(summary) returns high + medium + low
\* detections, the HIGH ones first, then the MEDIUM ones, then the LOW ones,
\* with the ids 1..n in that order; so the total of the summary equals the
\* number of detections only when it equals high + medium + low.
C30_GeneratedCountOrderIds ==
  Generated =>
    LET n == summaryArg.high + summaryArg.medium + summaryArg.low
    IN /\ Len(generated) = n
       /\ \A i \in 1..Len(generated) :
            /\ generated[i].id = i
            /\ generated[i].severity = TierOfPosition(i)
       /\ (summaryArg.total = Len(generated)) <=> (summaryArg.total = n)

C30_Witness ==
  /\ Generated
  /\ summaryArg = [total |-> 4, high |-> 1, medium |-> 1, low |-> 1]
  /\ Len(generated) = 3
  /\ generated[3].id = 3
  /\ generated[3].severity = "LOW"

====
